---- MODULE Spec2Model ----
(***************************************************************************)
(* LomseScoreComponent (Source/ScoreComponent.cpp): the score view of      *)
(* ConPianist.  The view owns a rendering-engine presenter, an offscreen   *)
(* image, two loop-marker handles and a "Load Score" button; it is driven  *)
(* by GUI events, by engine notifications and by PianoController          *)
(* notifications that are marshalled onto the UI thread's message queue.   *)
(*                                                                         *)
(* Scale factors are floats in the code; here they are counted in          *)
(* quarters (4 = 1.0, 6 = 1.5, 8 = 2.0), all exactly representable, so     *)
(* int(pixels * scale) is (pixels * scale) \div 4.                         *)
(***************************************************************************)
EXTENDS Integers, Sequences, FiniteSets, TLC

VARIABLES
    \* LomseScoreComponent members
    m_presenter,        \* the loaded document's file, or NullPresenter
    m_image,            \* <<w, h>> of the offscreen image, or NoImage
    m_scale,            \* in quarters
    loop,               \* cached PianoController::Loop
    loopStart,          \* cached PianoController::Position
    loopStartMark,      \* FragmentMark* : 0 is nullptr
    loopEndMark,
    loadButtonVisible,
    loadButtonX,        \* left edge of the button's bounds
    width, height,      \* Component bounds (getWidth(), getHeight())
    \* rendering engine, per presenter
    marks,              \* the fragment marks alive in the loaded document
    \* UI-thread message queue (MessageManager::callAsync)
    queue,
    \* environment: PianoController, Settings, Desktop, file system
    ctlLoop, ctlLoopStart, ctlPosition,
    songFiles,          \* state of the song's ".musicxml" and ".xml" neighbours
    zoomUi, displayScale,
    \* observation of the last handler that ran
    lastOp,             \* its name
    chosenFile,         \* the file the chooser gave it (buttonClicked), or NoFile
    engineCalls,        \* the engine calls it made through the presenter
    nullDeref,          \* it dereferenced a null m_presenter
    badRemove,          \* it passed remove_mark a handle of no living mark
    painted,            \* what paint drew: "image", "text", "null image" (it
                        \* dereferenced a null m_image), or "none"
    docAtEntry,         \* m_presenter when it was entered
    crashed             \* the process died inside it

viewVars == <<m_presenter, m_image, m_scale, loop, loopStart, loopStartMark,
              loopEndMark, loadButtonVisible, loadButtonX, width, height, marks,
              queue, lastOp, chosenFile, engineCalls, nullDeref, badRemove, painted,
              docAtEntry, crashed>>
envVars == <<ctlLoop, ctlLoopStart, ctlPosition, songFiles, zoomUi, displayScale>>
vars == <<viewVars, envVars>>

----------------------------------------------------------------------------
\* Bounds of the model

MaxQueue == 2
MaxMeasure == 2

----------------------------------------------------------------------------
\* Values

NullPresenter == [stem |-> "", ext |-> ""]
NoImage == <<>>
NullMark == 0
NoFile == [stem |-> "", ext |-> ""]

Position(m, b) == [measure |-> m, beat |-> b]
ZeroPosition == Position(0, 0)
ZeroLoop == [begin |-> ZeroPosition, end |-> ZeroPosition]

\* The song the controller plays, and the file a user picks in the chooser
SongName == [stem |-> "song", ext |-> ".mid"]
PickedFiles == {[stem |-> "picked", ext |-> ".xml"]}

FileStates == {"absent", "empty", "nonempty"}
Exts == {".musicxml", ".xml"}

UBOutcomes == {"crash", "survive"}

\* Inputs of the events
Sizes == {<<3, 2>>, <<5, 3>>}
ZoomValues == {4, 6}
DisplayScales == {4, 8}
LoopBegins == {ZeroPosition} \cup {Position(m, 1) : m \in 1..(MaxMeasure - 1)}
LoopEnds == {ZeroPosition, Position(MaxMeasure, 1)}
LoopStarts == {ZeroPosition, Position(1, 2)}
SongPositions == {Position(1, 1), Position(MaxMeasure, 3)}
ViewportYs == {30}
MousePoints == {<<3, 5>>}
MouseMods == {{"left", "shift"}}
WheelDeltas == {1}

\* The view, as one record the handlers transform; halted says that the
\* running handler has stopped executing (the process died, or the faulting
\* call was survived and the handler abandoned).
View == [m_presenter |-> m_presenter, m_image |-> m_image, m_scale |-> m_scale,
         loop |-> loop, loopStart |-> loopStart,
         loopStartMark |-> loopStartMark, loopEndMark |-> loopEndMark,
         loadButtonVisible |-> loadButtonVisible, loadButtonX |-> loadButtonX,
         width |-> width, height |-> height,
         marks |-> marks, queue |-> queue,
         lastOp |-> lastOp, chosenFile |-> chosenFile, engineCalls |-> engineCalls,
         nullDeref |-> nullDeref, badRemove |-> badRemove,
         painted |-> painted, docAtEntry |-> docAtEntry,
         crashed |-> crashed, halted |-> FALSE]

Env == [loop |-> ctlLoop, loopStart |-> ctlLoopStart, position |-> ctlPosition,
        songFiles |-> songFiles, zoomUi |-> zoomUi, displayScale |-> displayScale]

Commit(s) ==
    /\ m_presenter' = s.m_presenter
    /\ m_image' = s.m_image
    /\ m_scale' = s.m_scale
    /\ loop' = s.loop
    /\ loopStart' = s.loopStart
    /\ loopStartMark' = s.loopStartMark
    /\ loopEndMark' = s.loopEndMark
    /\ loadButtonVisible' = s.loadButtonVisible
    /\ loadButtonX' = s.loadButtonX
    /\ width' = s.width
    /\ height' = s.height
    /\ marks' = s.marks
    /\ queue' = s.queue
    /\ lastOp' = s.lastOp
    /\ chosenFile' = s.chosenFile
    /\ engineCalls' = s.engineCalls
    /\ nullDeref' = s.nullDeref
    /\ badRemove' = s.badRemove
    /\ painted' = s.painted
    /\ docAtEntry' = s.docAtEntry
    /\ crashed' = s.crashed

\* Entry of a handler
Begin(s, op) ==
    [s EXCEPT !.lastOp = op, !.chosenFile = NoFile, !.engineCalls = <<>>,
              !.nullDeref = FALSE,
              !.badRemove = FALSE, !.painted = "none",
              !.docAtEntry = s.m_presenter, !.halted = FALSE]

----------------------------------------------------------------------------
\* Pure helpers

\* int(pixels * m_scale)
ScaledPixels(pixels, scale) == (pixels * scale) \div 4

\* m_settings.zoomUi * mainDisplay.scale
ScaleOf(zoom, display) == (zoom * display) \div 4

\* LUnits(pixels) * 26.5f / m_scale, in hundredths of a logical unit
ScaledUnits(pixels, scale) == (pixels * 2650 * 4) \div scale

WithFileExtension(f, e) == [f EXCEPT !.ext = e]

ExistsAsFile(f, fs) == f.stem = SongName.stem /\ f.ext \in Exts /\ fs[f.ext] # "absent"

GetSize(f, fs) ==
    IF f.stem = SongName.stem /\ f.ext \in Exts /\ fs[f.ext] = "nonempty" THEN 1 ELSE 0

Max(a, b) == IF a > b THEN a ELSE b

GetMouseFlags(mods) ==
    {m \in {"k_mouse_left", "k_mouse_right", "k_mouse_middle",
            "k_kbd_shift", "k_kbd_alt", "k_kbd_ctrl"} :
        \/ m = "k_mouse_left" /\ "left" \in mods
        \/ m = "k_mouse_right" /\ "right" \in mods
        \/ m = "k_mouse_middle" /\ "middle" \in mods
        \/ m = "k_kbd_shift" /\ "shift" \in mods
        \/ m = "k_kbd_alt" /\ "alt" \in mods
        \/ m = "k_kbd_ctrl" /\ "ctrl" \in mods}

----------------------------------------------------------------------------
\* Calls into the engine through the presenter.  Every step takes the view
\* and returns it; a step on a handler that has stopped changes nothing.

\* m_presenter-> : undefined behaviour on a null presenter
Deref(s, ub) ==
    IF s.halted THEN s
    ELSE IF s.m_presenter = NullPresenter
         THEN [s EXCEPT !.nullDeref = TRUE, !.halted = TRUE, !.crashed = (ub = "crash")]
         ELSE s

EngineCall(s, name, args) ==
    IF s.halted THEN s ELSE [s EXCEPT !.engineCalls = Append(@, <<name, args>>)]

get_interactor(s, ub) == EngineCall(Deref(s, ub), "get_interactor", <<0>>)

get_document_raw_ptr(s, ub) == EngineCall(Deref(s, ub), "get_document_raw_ptr", <<>>)

\* m_presenter.reset(p) / m_presenter = nullptr : the old presenter, its
\* document, view and marks are destroyed
ResetPresenter(s, p) ==
    IF s.halted THEN s ELSE [s EXCEPT !.m_presenter = p, !.marks = {}]

MarkIds(s) == {mk.id : mk \in s.marks}

\* What the engine does with the mark it is asked to remove: a handle of no
\* living mark is a dangling pointer, undefined behaviour
DeleteMark(s, mark, ub) ==
    IF s.halted \/ mark = NullMark THEN s
    ELSE IF mark \in MarkIds(s)
         THEN [s EXCEPT !.marks = {mk \in @ : mk.id # mark}]
         ELSE [s EXCEPT !.badRemove = TRUE, !.halted = (ub = "crash"),
                        !.crashed = (ub = "crash")]

\* interactor->remove_mark(mark)
remove_mark(s, mark, ub) == DeleteMark(EngineCall(s, "remove_mark", <<mark>>), mark, ub)

\* The identity of a newly created mark
FreshMark(s) ==
    LET used == MarkIds(s) \cup {s.loopStartMark, s.loopEndMark}
    IN  CHOOSE n \in 1..(Cardinality(used) + 1) :
            n \notin used /\ \A k \in 1..(n - 1) : k \in used

\* ScoreAlgorithms::get_timepos_for(score, measure, beat), plus an offset
TimePos(measure, beat, offset) == [measure |-> measure, beat |-> beat, offset |-> offset]

InsertMark(s, mk) == IF s.halted THEN s ELSE [s EXCEPT !.marks = @ \cup {mk}]

\* interactor->add_fragment_mark_at_note_rest(m_scoreId, timepos), then type()
add_fragment_mark(s, id, type, timepos) ==
    InsertMark(EngineCall(s, "add_fragment_mark_at_note_rest", <<id, type, timepos>>),
               [id |-> id, type |-> type, timepos |-> timepos])

----------------------------------------------------------------------------
\* The handlers of LomseScoreComponent, in the order of the source

OFFSET_CORRECTION == 19

NoEvent == [type |-> "none", y |-> 0]
ViewportEvents == {[type |-> "k_update_viewport_event", y |-> y] : y \in ViewportYs}
LomseEvents == ViewportEvents \cup {[type |-> "k_end_of_playback_event", y |-> 0]}

\* A document created without a file (LoadDocument's else branch)
NewDocument == [stem |-> "<new>", ext |-> ""]

\* LoadDocument: the interactor's configuration
ConfigureInteractor(s) ==
    EngineCall(EngineCall(EngineCall(EngineCall(EngineCall(s,
        "set_rendering_buffer", <<>>),
        "add_event_handler", <<"k_update_window_event">>),
        "define_beat", <<"k_beat_bottom_ts">>),
        "set_visual_tracking_mode", <<"k_tracking_tempo_line">>),
        "switch_task", <<"k_task_drag_view">>)

ClearLoop(s) == IF s.halted THEN s ELSE [s EXCEPT !.loop = ZeroLoop]

\* open_document / new_document always give a presenter; m_scoreId, the id
\* of the document's score, is the engine's and is left out
LoadDocument(s, filename, ub) ==
    ClearLoop(get_document_raw_ptr(ConfigureInteractor(get_interactor(
        ResetPresenter(s, IF filename # NoFile THEN filename ELSE NewDocument), ub)), ub))

LomseEvent(s, event, ub) ==
    IF event.type = "k_update_viewport_event"
    THEN EngineCall(get_interactor(s, ub), "new_viewport",
                    <<0, Max(event.y - OFFSET_CORRECTION, 0)>>)
    ELSE s

\* The k_update_viewport_event the engine posts, synchronously, when moving
\* the tempo line makes it scroll (NoEvent when it does not)
NotifyViewport(s, notify, ub) ==
    IF s.halted \/ notify = NoEvent THEN s ELSE LomseEvent(s, notify, ub)

MoveTempoLine(s, scroll, e, notify, ub) ==
    IF scroll
    THEN NotifyViewport(EngineCall(s, "move_tempo_line_and_scroll_if_necessary",
                            <<e.position.measure - 1, e.position.beat - 1>>), notify, ub)
    ELSE EngineCall(s, "move_tempo_line",
                    <<e.position.measure - 1, e.position.beat - 1>>)

UpdateTempoLine(s, scroll, e, notify, ub) ==
    MoveTempoLine(get_interactor(s, ub), scroll, e, notify, ub)

\* UpdateABMarks, line by line
LoopChangedSince(s, e) ==
    ~(s.loop.begin = e.loop.begin /\ s.loop.end = e.loop.end /\ s.loopStart = e.loopStart)

CacheLoop(s, e) == [s EXCEPT !.loop = e.loop, !.loopStart = e.loopStart]

RemoveLoopStartMark(s, ub) == remove_mark(s, s.loopStartMark, ub)

RemoveLoopEndMark(s, ub) == remove_mark(s, s.loopEndMark, ub)

LoopStartTimePos(s) ==
    IF s.loop.begin.measure > 0
    THEN TimePos(s.loop.begin.measure - 1, s.loop.begin.beat - 1, 0)
    ELSE TimePos(s.loopStart.measure - 1, s.loopStart.beat - 1, 0)

AddLoopStartMark(s) ==
    IF ~s.halted /\ (s.loop.begin.measure > 0 \/ s.loopStart.measure > 0)
    THEN [add_fragment_mark(s, FreshMark(s), "k_mark_open_rounded", LoopStartTimePos(s))
             EXCEPT !.loopStartMark = FreshMark(s)]
    ELSE s

AddLoopEndMark(s) ==
    IF ~s.halted /\ s.loop.end.measure > 0
    THEN [add_fragment_mark(s, FreshMark(s), "k_mark_close_rounded",
                            TimePos(s.loop.end.measure - 1, s.loop.end.beat - 1, -1))
             EXCEPT !.loopEndMark = FreshMark(s)]
    ELSE s

RecreateMarks(s, force, e, ub) ==
    IF ~s.halted /\ (LoopChangedSince(s, e) \/ force)
    THEN AddLoopEndMark(AddLoopStartMark(
             RemoveLoopEndMark(RemoveLoopStartMark(CacheLoop(s, e), ub), ub)))
    ELSE s

UpdateABMarks(s, force, e, ub) ==
    RecreateMarks(get_document_raw_ptr(get_interactor(s, ub), ub), force, e, ub)

\* PrepareImage, line by line
NewImage(s) ==
    IF s.halted THEN s
    ELSE [s EXCEPT !.m_image = <<ScaledPixels(s.width, s.m_scale),
                                 ScaledPixels(s.height, s.m_scale)>>]

SetPageSize(s) ==
    IF s.halted THEN s
    ELSE EngineCall(EngineCall(s,
            "set_page_width", <<ScaledUnits(s.m_image[1], s.m_scale)>>),
            "set_page_height", <<ScaledUnits(s.m_image[2], s.m_scale)>>)

Redraw(s) == EngineCall(EngineCall(s, "on_document_updated", <<>>), "redraw_bitmap", <<>>)

PrepareImage(s, e, ub) ==
    UpdateTempoLine(
        UpdateABMarks(
            Redraw(SetPageSize(get_document_raw_ptr(get_interactor(NewImage(s), ub), ub))),
            TRUE, e, ub),
        FALSE, e, NoEvent, ub)

SetLoadButtonBounds(s) ==
    IF s.halted THEN s ELSE [s EXCEPT !.loadButtonX = (s.width \div 2) - 50]

\* A resized() that leaves the image alone
resized_keepingImage(s, e, ub) == SetLoadButtonBounds(s)

\* A resized() that takes the scale from the settings and the display again
resized_rescaling(s, e, ub) ==
    SetLoadButtonBounds(
        IF s.m_presenter # NullPresenter
        THEN PrepareImage([s EXCEPT !.m_scale = ScaleOf(e.zoomUi, e.displayScale)], e, ub)
        ELSE [s EXCEPT !.m_scale = ScaleOf(e.zoomUi, e.displayScale)])

resized(s, e, ub) ==
    SetLoadButtonBounds(IF s.m_presenter # NullPresenter THEN PrepareImage(s, e, ub) ELSE s)

\* *m_image : undefined behaviour on a null image
paint(s, ub) ==
    IF s.m_presenter # NullPresenter
    THEN IF s.m_image = NoImage
         THEN [s EXCEPT !.painted = "null image", !.halted = TRUE,
                        !.crashed = (ub = "crash")]
         ELSE [s EXCEPT !.painted = "image"]
    ELSE [s EXCEPT !.painted = "text"]

\* MessageManager::callAsync
callAsync(s, fn, arg) == [s EXCEPT !.queue = Append(@, [fn |-> fn, arg |-> arg])]

MouseArgs(s, event, dy) ==
    <<ScaledPixels(event.x, s.m_scale), ScaledPixels(event.y + dy, s.m_scale)>>

mouseDown(s, event, ub) ==
    IF s.m_presenter = NullPresenter THEN s
    ELSE EngineCall(get_interactor(s, ub), "on_mouse_button_down",
                    MouseArgs(s, event, 0) \o <<GetMouseFlags(event.mods)>>)

mouseUp(s, event, ub) ==
    IF s.m_presenter = NullPresenter THEN s
    ELSE EngineCall(get_interactor(s, ub), "on_mouse_button_up",
                    MouseArgs(s, event, 0) \o <<GetMouseFlags(event.mods)>>)

mouseMove(s, event, ub) ==
    IF s.m_presenter = NullPresenter THEN s
    ELSE EngineCall(get_interactor(s, ub), "on_mouse_move",
                    MouseArgs(s, event, 0) \o <<GetMouseFlags(event.mods)>>)

mouseDrag(s, event, ub) == mouseMove(s, event, ub)

mouseWheelMove(s, event, deltaY, ub) ==
    IF s.m_presenter = NullPresenter THEN s
    ELSE EngineCall(EngineCall(EngineCall(get_interactor(s, ub),
            "on_mouse_button_down", MouseArgs(s, event, 0) \o <<{"k_mouse_left"}>>),
            "on_mouse_move", MouseArgs(s, event, deltaY * 256) \o <<{"k_mouse_left"}>>),
            "on_mouse_button_up", MouseArgs(s, event, deltaY * 256) \o <<{"k_mouse_left"}>>)

PianoStateChanged(s, aspect) ==
    IF aspect \in {"apPosition", "apLoop"} THEN callAsync(s, "UpdateSongState", NoFile)
    ELSE IF aspect = "apSongName" THEN callAsync(s, "LoadSong", NoFile)
    ELSE s

UpdateSongState(s, e, notify, ub) ==
    IF s.m_presenter = NullPresenter THEN s
    ELSE UpdateTempoLine(UpdateABMarks(s, FALSE, e, ub), TRUE, e, notify, ub)

\* A load that leaves the button as it is
ShowLoadButton_skipped(s) == s

\* loadButton->setVisible(m_presenter == nullptr); repaint() only schedules a paint
ShowLoadButton(s) ==
    IF s.halted THEN s ELSE [s EXCEPT !.loadButtonVisible = (s.m_presenter = NullPresenter)]

\* A load that does not prepare the image
PrepareIfLoaded_skipped(s, e, ub) == s

\* if (m_presenter) PrepareImage();
PrepareIfLoaded(s, e, ub) ==
    IF ~s.halted /\ s.m_presenter # NullPresenter THEN PrepareImage(s, e, ub) ELSE s

\* LoadScore(const File&)
LoadScoreFile(s, file, e, ub) ==
    ShowLoadButton(PrepareIfLoaded(
        LoadDocument(ResetPresenter(s, NullPresenter), file, ub), e, ub))

\* LoadScore(const URL&)
LoadScoreUrl(s, url, e, ub) == LoadScoreFile(s, url, e, ub)

\* LoadSong: the candidate file it settles on
SongScoreFile(fs) ==
    IF ~ExistsAsFile(WithFileExtension(SongName, ".musicxml"), fs)
    THEN WithFileExtension(SongName, ".xml")
    ELSE WithFileExtension(SongName, ".musicxml")

LoadSongFile(s, e, ub) ==
    IF ExistsAsFile(SongScoreFile(e.songFiles), e.songFiles)
       /\ GetSize(SongScoreFile(e.songFiles), e.songFiles) > 0
    THEN LoadScoreFile(s, SongScoreFile(e.songFiles), e, ub)
    ELSE ShowLoadButton(s)

\* A LoadSong that does not drop the loaded document first
LoadSong_keepingDocument(s, e, ub) == LoadSongFile(s, e, ub)

LoadSong(s, e, ub) == LoadSongFile(ResetPresenter(s, NullPresenter), e, ub)

\* A click handler that loads the chosen score itself
buttonClicked_loadingInline(s, e, chosen) ==
    IF chosen # NoFile THEN LoadScoreUrl(s, chosen, e, "survive") ELSE s

\* chosen: the chooser's result, NoFile when browseForFileToOpen() is false.
\* The title the chooser shows (from the song name) is not state.
buttonClicked(s, e, chosen) ==
    IF chosen # NoFile THEN callAsync(s, "LoadScore", chosen) ELSE s

----------------------------------------------------------------------------
\* The state after construction (LomseScoreComponent's constructor and
\* BuildControls): no document, no image, the button visible, nothing queued.

Init ==
    /\ zoomUi \in ZoomValues
    /\ displayScale \in DisplayScales
    /\ m_scale = ScaleOf(zoomUi, displayScale)
    /\ m_presenter = NullPresenter
    /\ m_image = NoImage
    /\ loop = ZeroLoop
    /\ loopStart = ZeroPosition
    /\ loopStartMark = NullMark
    /\ loopEndMark = NullMark
    /\ loadButtonVisible = TRUE
    /\ loadButtonX = 0
    /\ width = 0
    /\ height = 0
    /\ marks = {}
    /\ queue = <<>>
    /\ ctlLoop = ZeroLoop
    /\ ctlLoopStart = ZeroPosition
    /\ ctlPosition = Position(1, 1)
    /\ songFiles = [x \in Exts |-> "absent"]
    /\ lastOp = "constructor"
    /\ chosenFile = NoFile
    /\ engineCalls = <<>>
    /\ nullDeref = FALSE
    /\ badRemove = FALSE
    /\ painted = "none"
    /\ docAtEntry = NullPresenter
    /\ crashed = FALSE

----------------------------------------------------------------------------
\* GUI events, delivered on the UI thread one at a time

MouseEvents == {[x |-> p[1], y |-> p[2], mods |-> m] : p \in MousePoints, m \in MouseMods}

\* Component::setBounds, which calls resized()
ResizeTo(S) ==
    /\ ~crashed
    /\ \E sz \in S, ub \in UBOutcomes :
        Commit(resized([Begin(View, "resized") EXCEPT !.width = sz[1], !.height = sz[2]],
                       Env, ub))
    /\ UNCHANGED envVars

Resize == ResizeTo(Sizes)

Paint ==
    /\ ~crashed
    /\ \E ub \in UBOutcomes : Commit(paint(Begin(View, "paint"), ub))
    /\ UNCHANGED envVars

MouseDown ==
    /\ ~crashed
    /\ \E ev \in MouseEvents, ub \in UBOutcomes :
        Commit(mouseDown(Begin(View, "mouseDown"), ev, ub))
    /\ UNCHANGED envVars

MouseUp ==
    /\ ~crashed
    /\ \E ev \in MouseEvents, ub \in UBOutcomes :
        Commit(mouseUp(Begin(View, "mouseUp"), ev, ub))
    /\ UNCHANGED envVars

MouseMove ==
    /\ ~crashed
    /\ \E ev \in MouseEvents, ub \in UBOutcomes :
        Commit(mouseMove(Begin(View, "mouseMove"), ev, ub))
    /\ UNCHANGED envVars

MouseDrag ==
    /\ ~crashed
    /\ \E ev \in MouseEvents, ub \in UBOutcomes :
        Commit(mouseDrag(Begin(View, "mouseDrag"), ev, ub))
    /\ UNCHANGED envVars

MouseWheelMove ==
    /\ ~crashed
    /\ \E ev \in MouseEvents, d \in WheelDeltas, ub \in UBOutcomes :
        Commit(mouseWheelMove(Begin(View, "mouseWheelMove"), ev, d, ub))
    /\ UNCHANGED envVars

\* The engine delivers a notification to the callback registered on the
\* library in the constructor
EngineNotify ==
    /\ ~crashed
    /\ \E ev \in LomseEvents, ub \in UBOutcomes :
        Commit(LomseEvent(Begin(View, "LomseEvent"), ev, ub))
    /\ UNCHANGED envVars

\* A click on the load button; the chooser returns a file or is cancelled
\* (it is taken to return at once: no other event runs inside the click)
ButtonClick ==
    /\ ~crashed
    /\ \E chosen \in PickedFiles \cup {NoFile} :
        /\ chosen # NoFile => Len(queue) < MaxQueue
        /\ Commit(buttonClicked([Begin(View, "buttonClicked") EXCEPT !.chosenFile = chosen],
                                Env, chosen))
    /\ UNCHANGED envVars

----------------------------------------------------------------------------
\* The controller changes and notifies its listeners

PositionChangedTo(P) ==
    /\ ~crashed
    /\ Len(queue) < MaxQueue
    /\ \E p \in P : ctlPosition' = p
    /\ Commit(PianoStateChanged(Begin(View, "PianoStateChanged"), "apPosition"))
    /\ UNCHANGED <<ctlLoop, ctlLoopStart, songFiles, zoomUi, displayScale>>

LoopChangedTo(B, E, S) ==
    /\ ~crashed
    /\ Len(queue) < MaxQueue
    /\ \E b \in B, en \in E, st \in S :
        /\ ctlLoop' = [begin |-> b, end |-> en]
        /\ ctlLoopStart' = st
    /\ Commit(PianoStateChanged(Begin(View, "PianoStateChanged"), "apLoop"))
    /\ UNCHANGED <<ctlPosition, songFiles, zoomUi, displayScale>>

\* A new song, whose two candidate score files are in a state of FS
SongNameChangedTo(FS) ==
    /\ ~crashed
    /\ Len(queue) < MaxQueue
    /\ \E fs \in FS : songFiles' = fs
    /\ Commit(PianoStateChanged(Begin(View, "PianoStateChanged"), "apSongName"))
    /\ UNCHANGED <<ctlLoop, ctlLoopStart, ctlPosition, zoomUi, displayScale>>

PositionChanged == PositionChangedTo(SongPositions)

LoopChanged == LoopChangedTo(LoopBegins, LoopEnds, LoopStarts)

SongNameChanged == SongNameChangedTo([Exts -> FileStates])

OtherAspectChanged ==
    /\ ~crashed
    /\ Commit(PianoStateChanged(Begin(View, "PianoStateChanged"), "apVolume"))
    /\ UNCHANGED envVars

----------------------------------------------------------------------------
\* The message loop runs the callback at the head of the queue

Pop(s) == [s EXCEPT !.queue = Tail(@)]

DispatchUpdateSongState ==
    /\ ~crashed
    /\ queue # <<>> /\ Head(queue).fn = "UpdateSongState"
    /\ \E notify \in ViewportEvents \cup {NoEvent}, ub \in UBOutcomes :
        Commit(UpdateSongState(Begin(Pop(View), "UpdateSongState"), Env, notify, ub))
    /\ UNCHANGED envVars

DispatchLoadSong ==
    /\ ~crashed
    /\ queue # <<>> /\ Head(queue).fn = "LoadSong"
    /\ \E ub \in UBOutcomes :
        Commit(LoadSong(Begin(Pop(View), "LoadSong"), Env, ub))
    /\ UNCHANGED envVars

DispatchLoadScore ==
    /\ ~crashed
    /\ queue # <<>> /\ Head(queue).fn = "LoadScore"
    /\ \E ub \in UBOutcomes :
        Commit(LoadScoreUrl(Begin(Pop(View), "LoadScore"), Head(queue).arg, Env, ub))
    /\ UNCHANGED envVars

----------------------------------------------------------------------------
\* Settings and the desktop change behind the view's back

ZoomChanged ==
    /\ ~crashed
    /\ \E z \in ZoomValues \ {zoomUi} : zoomUi' = z
    /\ UNCHANGED <<viewVars, ctlLoop, ctlLoopStart, ctlPosition, songFiles, displayScale>>

DisplayChanged ==
    /\ ~crashed
    /\ \E d \in DisplayScales \ {displayScale} : displayScale' = d
    /\ UNCHANGED <<viewVars, ctlLoop, ctlLoopStart, ctlPosition, songFiles, zoomUi>>

----------------------------------------------------------------------------

GuiBut(S) ==
    \/ ResizeTo(S) \/ Paint
    \/ MouseDown \/ MouseUp \/ MouseMove \/ MouseDrag \/ MouseWheelMove
    \/ EngineNotify \/ ButtonClick

Gui == GuiBut(Sizes)

Dispatch == DispatchUpdateSongState \/ DispatchLoadSong \/ DispatchLoadScore

\* Every event, every input
Next ==
    \/ Gui \/ Dispatch
    \/ PositionChanged \/ LoopChanged \/ SongNameChanged \/ OtherAspectChanged
    \/ ZoomChanged \/ DisplayChanged

\* The complete system
Spec == Init /\ [][Next]_vars

\* The specifications below are the same view with the same handlers; each
\* holds a part of the environment fixed.

\* Loading and unloading: every state of the song's files; the loop has no
\* end and no start, the view has one size, the scale stays 1.0
InitLoad == Init /\ zoomUi = 4 /\ displayScale = 4

NextLoad ==
    \/ GuiBut({<<3, 2>>}) \/ Dispatch
    \/ SongNameChanged \/ OtherAspectChanged
    \/ PositionChangedTo({Position(1, 1)})
    \/ LoopChangedTo({ZeroPosition, Position(1, 1)}, {ZeroPosition}, {ZeroPosition})

SpecLoad == InitLoad /\ [][NextLoad]_vars

\* The loop markers: every loop; scores are loaded with the button, and a
\* new song has no score
NoScore == [x \in Exts |-> "absent"]

NextMarks ==
    \/ GuiBut({<<3, 2>>}) \/ Dispatch
    \/ LoopChanged \/ OtherAspectChanged
    \/ PositionChangedTo({Position(1, 1)})
    \/ SongNameChangedTo({NoScore})

SpecMarks == InitLoad /\ [][NextMarks]_vars

\* Sizes and scales: every size, zoom and display scale; no loop
NextSize ==
    \/ Gui \/ Dispatch
    \/ OtherAspectChanged
    \/ PositionChangedTo(SongPositions)
    \/ SongNameChangedTo({NoScore})
    \/ ZoomChanged \/ DisplayChanged

SpecSize == Init /\ [][NextSize]_vars

----------------------------------------------------------------------------
\* Properties

ImageForView == <<ScaledPixels(width, m_scale), ScaledPixels(height, m_scale)>>

NoCandidate(fs) == \A x \in Exts : fs[x] = "absent"

\* The step is the message loop running fn from the head of the queue
Dispatches(fn) == queue # <<>> /\ Head(queue).fn = fn /\ queue' = Tail(queue)

\* C1: no handler calls into the engine through a null m_presenter.
C1_EngineCallsOnlyWhenLoaded == ~nullDeref

\* C2: after LoadSong has found neither candidate file, no document is
\* loaded (the one loaded before is gone, with its marks), the load button
\* is visible and nothing faulted; and a paint with no document loaded draws
\* the instructional text.
C2_MissingScoreShowsMessage ==
    /\ (lastOp = "LoadSong" /\ NoCandidate(songFiles)) =>
          /\ m_presenter = NullPresenter
          /\ marks = {}
          /\ loadButtonVisible
          /\ ~nullDeref /\ ~badRemove /\ ~crashed
    /\ (lastOp = "paint" /\ docAtEntry = NullPresenter) => painted = "text"

C2_Witness ==
    /\ lastOp = "LoadSong" /\ NoCandidate(songFiles)
    /\ docAtEntry # NullPresenter
    /\ m_presenter = NullPresenter

\* C3: remove_mark is only ever given a null handle or the handle of a mark
\* that is alive in the loaded document.
C3_RemovedMarksAreAlive == ~badRemove

\* C4, as claimed: after every resized() the image exists and has the size
\* of the view, scaled.
C4_ImageRecreatedOnEveryResize == lastOp = "resized" => m_image = ImageForView

\* C4, amended: after every resized() entered with a document loaded the
\* image exists and has the size of the view, scaled.
C4_ImageRecreatedOnResizeWhenLoaded ==
    (lastOp = "resized" /\ docAtEntry # NullPresenter) => m_image = ImageForView

C4_Witness ==
    /\ lastOp = "resized" /\ docAtEntry # NullPresenter
    /\ m_scale = 6 /\ width = 5 /\ height = 3
    /\ m_image = <<7, 4>>

\* C5, as claimed: after every resized() m_scale is the zoom setting times
\* the display scale of that moment.
C5_ScaleRecomputedOnResize ==
    lastOp = "resized" => m_scale = ScaleOf(zoomUi, displayScale)

\* C5, amended: m_scale is the zoom setting times the display scale at
\* construction, and no handler, resized() included, changes it afterwards.
C5_ScaleFixedAtConstruction ==
    /\ m_scale = ScaleOf(zoomUi, displayScale)
    /\ [][m_scale' = m_scale]_vars

C5_Witness ==
    /\ lastOp = "resized" /\ docAtEntry # NullPresenter
    /\ m_scale # ScaleOf(zoomUi, displayScale)
    /\ m_image = ImageForView

\* C6: a click on the load button leaves the document, the image, the marks
\* and the button's visibility as they are; it queues one LoadScore of the
\* chosen file behind what is queued, or nothing when the chooser was
\* cancelled.  The load itself runs in a later step, from the queue.
C6_ClickOnlyQueuesTheLoad ==
    [][(lastOp' = "buttonClicked" /\ viewVars' # viewVars) =>
          /\ UNCHANGED <<m_presenter, m_image, marks, loadButtonVisible>>
          /\ engineCalls' = <<>>
          /\ IF chosenFile' = NoFile
             THEN queue' = queue
             ELSE queue' = Append(queue, [fn |-> "LoadScore", arg |-> chosenFile'])]_vars

C6_Witness ==
    /\ lastOp = "buttonClicked" /\ chosenFile \in PickedFiles
    /\ m_presenter # chosenFile
    /\ Len(queue) = 2 /\ queue[2] = [fn |-> "LoadScore", arg |-> chosenFile]

\* C7: after LoadSong, when a candidate exists as a non-empty file, the
\* document loaded is the .musicxml candidate if that one is non-empty, and
\* the .xml candidate otherwise.
C7_LoadsANonEmptyCandidate ==
    (lastOp = "LoadSong" /\ \E x \in Exts : songFiles[x] = "nonempty") =>
        m_presenter = WithFileExtension(SongName,
                        IF songFiles[".musicxml"] = "nonempty" THEN ".musicxml" ELSE ".xml")

\* C8: between handlers the load button is visible exactly when no document
\* is loaded.
C8_ButtonVisibleIffNoDocument ==
    ~crashed => (loadButtonVisible <=> m_presenter = NullPresenter)

C8_Witness ==
    /\ lastOp = "LoadScore" /\ ~crashed
    /\ docAtEntry # NullPresenter /\ m_presenter \in PickedFiles
    /\ ~loadButtonVisible

\* C9: what an UpdateSongState entered with a document loaded leaves behind
StartMarks == {mk \in marks : mk.type = "k_mark_open_rounded"}
EndMarks == {mk \in marks : mk.type = "k_mark_close_rounded"}
MarkCalls(calls) ==
    {i \in 1..Len(calls) : calls[i][1] \in {"remove_mark", "add_fragment_mark_at_note_rest"}}

MarksFollowLoop ==
    /\ loop = ctlLoop /\ loopStart = ctlLoopStart
    /\ Cardinality(StartMarks) = IF loop.begin.measure > 0 \/ loopStart.measure > 0
                                 THEN 1 ELSE 0
    /\ \A mk \in StartMarks :
          /\ mk.id = loopStartMark
          /\ mk.timepos = IF loop.begin.measure > 0
                          THEN TimePos(loop.begin.measure - 1, loop.begin.beat - 1, 0)
                          ELSE TimePos(loopStart.measure - 1, loopStart.beat - 1, 0)
    /\ Cardinality(EndMarks) = IF loop.end.measure > 0 THEN 1 ELSE 0
    /\ \A mk \in EndMarks : mk.id = loopEndMark

\* C9: an UpdateSongState entered with a document loaded removes and
\* recreates the markers exactly when the controller's loop differs from the
\* cached one, and leaves the cache equal to the controller's loop, one start
\* marker iff loop.begin or loopStart has a measure (at loop.begin if that has
\* one, else at loopStart) and one end marker iff loop.end has a measure.
C9_UpdateSongStateRecreatesMarks ==
    [][(Dispatches("UpdateSongState") /\ m_presenter # NullPresenter) =>
          /\ (MarkCalls(engineCalls') # {}) <=> LoopChangedSince(View, Env)
          /\ MarksFollowLoop']_vars

\* The same, of the calls that return
C9_WhenUpdateSongStateReturns ==
    [][(Dispatches("UpdateSongState") /\ m_presenter # NullPresenter /\ ~crashed') =>
          /\ (MarkCalls(engineCalls') # {}) <=> LoopChangedSince(View, Env)
          /\ MarksFollowLoop']_vars

\* C10: whenever a document is loaded the image exists and has the size of
\* the view, scaled; paint never finds m_image null.
C10_ImageMatchesViewWhenLoaded ==
    /\ m_presenter # NullPresenter => m_image = ImageForView
    /\ painted # "null image"

C10_Witness ==
    /\ lastOp = "paint" /\ painted = "image"
    /\ m_scale = 12 /\ width = 5 /\ height = 3
    /\ m_image = <<15, 9>>

====
